---------------------------- MODULE Spec2Model ----------------------------
(***************************************************************************)
(* A model of src/ipo_scraper.py: scrape_ipo_subscription_data, the batch   *)
(* loop over the IPO links of an Excel column that loads each page in one   *)
(* shared Chrome session, derives the company name and reads the QIB, NII,  *)
(* RII and Total cells of the last row of the bidding table.                *)
(*                                                                         *)
(* A Python str is a sequence of one-character strings, so that search,     *)
(* split, replace, strip and title() are computed character by character.   *)
(***************************************************************************)
EXTENDS Integers, Sequences, FiniteSets, TLC

VARIABLES
    pc,            \* the statement scrape_ipo_subscription_data is about to run
    excel,         \* the column df[url_column_name] of the Excel file (input)
    ipo_urls,      \* ipo_urls (line 31)
    idx,           \* the position in ipo_urls of the loop variable url
    company_name,  \* the locals of lines 75-79
    qib_sub,
    nii_sub,
    rii_sub,
    total_sub,
    scraped_data,  \* scraped_data (line 72)
    driver,        \* the Chrome session: "none", "open" or "quit"
    quits,         \* how many times driver.quit() ran
    page,          \* the page the browser shows after driver.get
    soup,          \* soup (line 102)
    history,       \* per address started: what the browser did, what was raised
    result         \* what the function returned

vars == <<pc, excel, ipo_urls, idx, company_name, qib_sub, nii_sub, rii_sub,
          total_sub, scraped_data, driver, quits, page, soup, history, result>>

----------------------------------------------------------------------------
(* Bounds of the model *)

\* the longest Excel column
MaxUrls == 2
\* the longest page title enumerated character by character
MaxTitleLen == 5
\* the longest address enumerated character by character
MaxUrlLen == 5
\* the most body rows of an enumerated bidding table
MaxRows == 2
\* the most cells of the last row of an enumerated bidding table
MaxCells == 4

----------------------------------------------------------------------------
(* Python str operations *)

\* the sentinel "N/A" of lines 75-79 and 136-139
NA == <<"N", "/", "A">>

LowerCase == <<"a","b","c","d","e","f","g","h","i","j","k","l","m",
               "n","o","p","q","r","s","t","u","v","w","x","y","z">>
UpperCase == <<"A","B","C","D","E","F","G","H","I","J","K","L","M",
               "N","O","P","Q","R","S","T","U","V","W","X","Y","Z">>

Range(s) == {s[i] : i \in DOMAIN s}

IsLower(c) == c \in Range(LowerCase)
IsUpper(c) == c \in Range(UpperCase)
IsCased(c) == IsLower(c) \/ IsUpper(c)

LetterIndex(c) ==
    IF IsLower(c) THEN CHOOSE i \in DOMAIN LowerCase : LowerCase[i] = c
                  ELSE CHOOSE i \in DOMAIN UpperCase : UpperCase[i] = c

ToUpper(c) == IF IsLower(c) THEN UpperCase[LetterIndex(c)] ELSE c
ToLower(c) == IF IsUpper(c) THEN LowerCase[LetterIndex(c)] ELSE c

\* the characters str.strip() removes: the space, and the no-break space
\* U+00A0 (written "~"), which is whitespace to Python but not to HTML
Whitespace == {" ", "~"}

\* s[k .. k + Len(pat) - 1] = pat
MatchesAt(s, pat, k) ==
    /\ k >= 1
    /\ k + Len(pat) - 1 <= Len(s)
    /\ \A j \in 1..Len(pat) : s[k + j - 1] = pat[j]

\* str.find, 1-based: the first place pat occurs in s, 0 when it does not
RECURSIVE FindFrom(_, _, _)
FindFrom(s, pat, k) ==
    IF k + Len(pat) - 1 > Len(s) THEN 0
    ELSE IF MatchesAt(s, pat, k) THEN k
    ELSE FindFrom(s, pat, k + 1)

Find(s, pat) == FindFrom(s, pat, 1)

\* pat in s
Contains(s, pat) == Find(s, pat) # 0

\* s.replace(pat, rep): every non-overlapping occurrence, left to right
RECURSIVE Replace(_, _, _)
Replace(s, pat, rep) ==
    IF s = <<>> THEN <<>>
    ELSE IF MatchesAt(s, pat, 1)
         THEN rep \o Replace(SubSeq(s, Len(pat) + 1, Len(s)), pat, rep)
         ELSE <<s[1]>> \o Replace(Tail(s), pat, rep)

\* s.split(sep) for a one-character sep: Len(result) = occurrences + 1
RECURSIVE Split(_, _)
Split(s, sep) ==
    LET k == Find(s, <<sep>>)
    IN  IF k = 0 THEN <<s>>
        ELSE <<SubSeq(s, 1, k - 1)>> \o Split(SubSeq(s, k + 1, Len(s)), sep)

RECURSIVE LStrip(_)
LStrip(s) ==
    IF s # <<>> /\ s[1] \in Whitespace THEN LStrip(Tail(s)) ELSE s

RECURSIVE RStrip(_)
RStrip(s) ==
    IF s # <<>> /\ s[Len(s)] \in Whitespace
    THEN RStrip(SubSeq(s, 1, Len(s) - 1)) ELSE s

\* s.strip()
Strip(s) == RStrip(LStrip(s))

\* s.title(): a cased character is upper-cased after an uncased one (or at
\* the start) and lower-cased after a cased one
RECURSIVE TitleFrom(_, _)
TitleFrom(s, prev_cased) ==
    IF s = <<>> THEN <<>>
    ELSE LET c == s[1]
         IN  <<IF ~IsCased(c) THEN c
               ELSE IF prev_cased THEN ToLower(c) ELSE ToUpper(c)>>
             \o TitleFrom(Tail(s), IsCased(c))

Title(s) == TitleFrom(s, FALSE)

----------------------------------------------------------------------------
(* The company name, lines 104-114 *)

NoMatch == [matched |-> FALSE, group1 |-> <<>>]

\* the pattern's literal tail " IPO" and the address marker "-ipo"
TitleSuffix == <<" ", "I", "P", "O">>
IpoMarker == <<"-", "i", "p", "o">>

\* re.search(r'^(.*?) IPO', title): anchored at the start, the lazy group
\* ends at the first " IPO"
ReSearch(title) ==
    LET k == Find(title, TitleSuffix)
    IN  IF k = 0 THEN NoMatch
        ELSE [matched |-> TRUE, group1 |-> SubSeq(title, 1, k - 1)]

\* the for loop of lines 111-114 over url_parts, from part i on: the first
\* part containing '-ipo' names the company and breaks the loop; with no
\* such part company_name keeps the value it had (name)
RECURSIVE UrlFallback(_, _, _)
UrlFallback(url_parts, i, name) ==
    IF i > Len(url_parts) THEN name
    ELSE IF Contains(url_parts[i], IpoMarker)
         THEN Title(Replace(Replace(url_parts[i], IpoMarker, <<>>),
                            <<"-">>, <<" ">>))
         ELSE UrlFallback(url_parts, i + 1, name)

\* a faulty variant: the address is consulted before the title
ResolveNameUrlFirst(title, url, name) ==
    LET fromUrl == UrlFallback(Split(url, "/"), 1, name)
        title_match == ReSearch(title)
    IN  IF fromUrl # name THEN fromUrl
        ELSE IF title_match.matched THEN Strip(title_match.group1)
        ELSE name

\* lines 105-114: the value of company_name after them, name its value before
ResolveName(title, url, name) ==
    LET title_match == ReSearch(title)
    IN  IF title_match.matched
        THEN Strip(title_match.group1)
        ELSE UrlFallback(Split(url, "/"), 1, name)

----------------------------------------------------------------------------
(* The bidding table, lines 116-145 *)

\* the substrings looked for in a td's data-title attribute, lines 131-134
Markers == {"QIB", "NII", "RII", "Total"}

\* A td is [data_title, text]: data_title is the set of markers its
\* data-title attribute contains ({} also stands for a td without the
\* attribute, for which the lambda of lines 131-134 is false), text its text.
\* A row is a sequence of tds in document order.  A parsed page is
\*   caption: soup.find('caption', string=...) finds a caption
\*   table:   the caption has a parent table
\*   tbody:   the table has a tbody
\*   rows:    the tr of that tbody

\* last_row.find('td', {'data-title': lambda x: x and marker in x}): the
\* first such td of the row from position i on, 0 for None
RECURSIVE FindTd(_, _, _)
FindTd(row, marker, i) ==
    IF i > Len(row) THEN 0
    ELSE IF marker \in row[i].data_title THEN i
    ELSE FindTd(row, marker, i + 1)

\* td.get_text(strip=True) if td else "N/A", lines 136-139 (a td holds one
\* text node, so get_text(strip=True) is its text stripped)
TdText(row, marker) ==
    LET td == FindTd(row, marker, 1)
    IN  IF td # 0 THEN Strip(row[td].text) ELSE NA

\* a faulty variant: the first body row is read
SelectFirstRow(rows) == rows[1]

\* last_row = rows[-1], line 128
SelectLastRow(rows) == rows[Len(rows)]

\* a faulty variant: a row lacking one of the four cells yields no metric at all
RowMetricsAllOrNothing(last_row) ==
    IF \A m \in Markers : FindTd(last_row, m, 1) # 0
    THEN [qib_sub   |-> TdText(last_row, "QIB"),
          nii_sub   |-> TdText(last_row, "NII"),
          rii_sub   |-> TdText(last_row, "RII"),
          total_sub |-> TdText(last_row, "Total")]
    ELSE [qib_sub |-> NA, nii_sub |-> NA, rii_sub |-> NA, total_sub |-> NA]

\* lines 131-139: the four metrics of a row
RowMetrics(last_row) ==
    [qib_sub   |-> TdText(last_row, "QIB"),
     nii_sub   |-> TdText(last_row, "NII"),
     rii_sub   |-> TdText(last_row, "RII"),
     total_sub |-> TdText(last_row, "Total")]

\* lines 117-145 on the parsed page s, prev the four metrics before them:
\* what is raised ("none" or the exception class) and the four metrics after.
\* table_element.find('tbody') is None for a table without tbody, and
\* None.find_all raises AttributeError (line 124)
Extract(s, prev) ==
    IF s.caption
    THEN IF s.table
         THEN IF ~s.tbody
              THEN [raised |-> "AttributeError", metrics |-> prev]
              ELSE IF s.rows # <<>>
                   THEN [raised |-> "none",
                         metrics |-> RowMetrics(SelectLastRow(s.rows))]
                   ELSE [raised |-> "none", metrics |-> prev]
         ELSE [raised |-> "none", metrics |-> prev]
    ELSE [raised |-> "none", metrics |-> prev]

----------------------------------------------------------------------------
(* The exceptions of the per-address try block, lines 81-154 *)

\* the except clauses of lines 147-154, tried in order
Handler(kind) ==
    IF kind = "TimeoutException" THEN "timeout"
    ELSE IF kind = "NoSuchElementException" THEN "no_such_element"
    ELSE IF kind = "WebDriverException" THEN "webdriver"
    ELSE "generic"

\* faulty variants: a handler that skips the address, one that tries it again
AfterHandlerSkip == "for"
AfterHandlerRetry == "get"

\* after an except clause control falls through to line 157
AfterHandler == "append"

\* a faulty variant: the locals keep the values of the previous address
StaleLocals(name, metrics) == [company_name |-> name, metrics |-> metrics]

\* lines 75-79: the locals at the start of an address, given their old values
FreshLocals(name, metrics) ==
    [company_name |-> NA,
     metrics |-> [qib_sub |-> NA, nii_sub |-> NA, rii_sub |-> NA,
                  total_sub |-> NA]]

\* the dict of lines 157-164
Record(name, url, qib, nii, rii, total) ==
    [company_name |-> name, ipo_link |-> url, qib_sub |-> qib,
     nii_sub |-> nii, rii_sub |-> rii, total_sub |-> total]

\* df[url_column_name].dropna().tolist(), line 31
NaN == <<"n", "a", "n">>
DropNa(column) == SelectSeq(column, LAMBDA x : x # NaN)

----------------------------------------------------------------------------
(* The inputs: Excel columns, pages, and what the browser may raise *)

\* all sequences over S of length at most n
SeqsUpTo(S, n) == UNION {[1..k -> S] : k \in 0..n}

\* "h/acme-corp-ipo/7": an address with an '-ipo' segment
UrlAcme == <<"h", "/", "a", "c", "m", "e", "-", "c", "o", "r", "p",
             "-", "i", "p", "o", "/", "7">>
\* "h/x": an address without one
UrlPlain == <<"h", "/", "x">>
SampleUrls == {UrlAcme, UrlPlain}

\* "Acme IPO" matches the title pattern, "Home" does not
TitleAcme == <<"A", "c", "m", "e", " ", "I", "P", "O">>
TitleHome == <<"H", "o", "m", "e">>

\* the text of the j-th td of the r-th row: "r.jx", bare, padded with spaces,
\* or followed by a no-break space
Digit == <<"1", "2", "3", "4", "5", "6", "7", "8", "9">>
CellText(r, j) ==
    LET v == <<Digit[r], ".", Digit[j], "x">>
    IN  CASE j % 3 = 0 -> v
          [] j % 3 = 1 -> <<" ">> \o v \o <<" ">>
          [] OTHER     -> v \o <<"~">>

\* the r-th row of a table whose tds carry the data-titles ts, in order
MkRow(r, ts) ==
    [j \in 1..Len(ts) |-> [data_title |-> ts[j], text |-> CellText(r, j)]]

FullRow == <<{"QIB"}, {"NII"}, {"RII"}, {"Total"}>>

NoCaption == [caption |-> FALSE, table |-> FALSE, tbody |-> FALSE, rows |-> <<>>]
NoTable   == [caption |-> TRUE,  table |-> FALSE, tbody |-> FALSE, rows |-> <<>>]
NoTbody   == [caption |-> TRUE,  table |-> TRUE,  tbody |-> FALSE, rows |-> <<>>]
TableOf(rows) == [caption |-> TRUE, table |-> TRUE, tbody |-> TRUE, rows |-> rows]

\* the pages the batch run may be served: title (driver.title), marker (the
\* caption of line 98 shows up within the 30 s of the wait), markup (what
\* BeautifulSoup makes of driver.page_source)
SamplePages ==
    { [title |-> TitleAcme, marker |-> TRUE,
       markup |-> TableOf(<<MkRow(1, FullRow), MkRow(2, <<{"Total"}, {"QIB"}>>)>>)],
      [title |-> TitleAcme, marker |-> TRUE, markup |-> NoTbody],
      [title |-> TitleHome, marker |-> FALSE, markup |-> NoCaption],
      [title |-> TitleHome, marker |-> TRUE,
       markup |-> TableOf(<<MkRow(1, <<{"QIB"}>>)>>)] }

\* the browser before the first driver.get
BlankPage == [title |-> <<>>, marker |-> FALSE, markup |-> NoCaption]

\* the calls on driver inside the try block, by the pc that runs them
DriverCalls == {"get", "scroll", "wait", "page_source", "title"}

\* what a call on driver may raise besides the wait's own TimeoutException:
\* driver.get any of the classes lines 147-153 catch, the later calls a
\* WebDriverException (the browser crashed or disconnected)
Raisable(site) ==
    IF site = "get"
    THEN {"TimeoutException", "NoSuchElementException", "WebDriverException",
          "Exception"}
    ELSE {"WebDriverException"}

\* the history entry of an address: how often driver.get ran for it, the page
\* it got, where an exception was raised ("none": nowhere, "driver": in a
\* call on the browser, "extract": in lines 117-145), the except clause run
NewEntry == [gets |-> 0, page |-> BlankPage, at |-> "none", handler |-> "none"]

\* the function's result: not returned yet, None, or the DataFrame of rows
NotReturned == [status |-> "running", rows |-> <<>>]
None == [status |-> "None", rows |-> <<>>]
DataFrame(rows) == [status |-> "DataFrame", rows |-> rows]

----------------------------------------------------------------------------
(* scrape_ipo_subscription_data, statement by statement *)

url == ipo_urls[idx]

locals == <<company_name, qib_sub, nii_sub, rii_sub, total_sub>>

metrics == [qib_sub |-> qib_sub, nii_sub |-> nii_sub, rii_sub |-> rii_sub,
            total_sub |-> total_sub]

\* lines 26-31: the column is read
ReadExcel ==
    /\ pc = "read_excel"
    /\ ipo_urls' = DropNa(excel)
    /\ pc' = "init_driver"
    /\ UNCHANGED <<excel, idx, locals, scraped_data, driver, quits, page,
                   soup, history, result>>

\* lines 33-42: no file, no such column, or another error: return None
ReadExcelFails ==
    /\ pc = "read_excel"
    /\ result' = None
    /\ pc' = "done"
    /\ UNCHANGED <<excel, ipo_urls, idx, locals, scraped_data, driver, quits,
                   page, soup, history>>

\* lines 64-67 and 72: the session is created and configured
InitDriver ==
    /\ pc = "init_driver"
    /\ driver' = "open"
    /\ scraped_data' = <<>>
    /\ pc' = "for"
    /\ UNCHANGED <<excel, ipo_urls, idx, locals, quits, page, soup, history,
                   result>>

\* lines 65-66 raise (no driver binary, Chrome does not start): lines 68-70
InitDriverFails ==
    /\ pc = "init_driver"
    /\ result' = None
    /\ pc' = "done"
    /\ UNCHANGED <<excel, ipo_urls, idx, locals, scraped_data, driver, quits,
                   page, soup, history>>

\* line 66 creates the session and line 67 raises: lines 68-70 return None
SetTimeoutFails ==
    /\ pc = "init_driver"
    /\ driver' = "open"
    /\ result' = None
    /\ pc' = "done"
    /\ UNCHANGED <<excel, ipo_urls, idx, locals, scraped_data, quits, page,
                   soup, history>>

\* line 74 with a next url, lines 75-79
ForNext ==
    /\ pc = "for"
    /\ idx < Len(ipo_urls)
    /\ idx' = idx + 1
    /\ LET fresh == FreshLocals(company_name, metrics)
       IN  /\ company_name' = fresh.company_name
           /\ qib_sub' = fresh.metrics.qib_sub
           /\ nii_sub' = fresh.metrics.nii_sub
           /\ rii_sub' = fresh.metrics.rii_sub
           /\ total_sub' = fresh.metrics.total_sub
    /\ history' = Append(history, NewEntry)
    /\ pc' = "get"
    /\ UNCHANGED <<excel, ipo_urls, scraped_data, driver, quits, page, soup,
                   result>>

\* line 74 with ipo_urls exhausted
ForEnd ==
    /\ pc = "for"
    /\ idx = Len(ipo_urls)
    /\ pc' = "quit"
    /\ UNCHANGED <<excel, ipo_urls, idx, locals, scraped_data, driver, quits,
                   page, soup, history, result>>

\* lines 82-83: driver.get(url) loads a page
Get ==
    /\ pc = "get"
    /\ \E p \in SamplePages :
          /\ page' = p
          /\ history' = [history EXCEPT ![idx].gets = @ + 1, ![idx].page = p]
    /\ pc' = "scroll"
    /\ UNCHANGED <<excel, ipo_urls, idx, locals, scraped_data, driver, quits,
                   soup, result>>

\* a call on driver raises: the except clause of lines 147-154 for its class
\* runs and control goes on after the try statement
Raises ==
    /\ pc \in DriverCalls
    /\ \E kind \in Raisable(pc) :
          history' = [history EXCEPT
                        ![idx].gets = IF pc = "get" THEN @ + 1 ELSE @,
                        ![idx].at = "driver",
                        ![idx].handler = Handler(kind)]
    /\ pc' = AfterHandler
    /\ UNCHANGED <<excel, ipo_urls, idx, locals, scraped_data, driver, quits,
                   page, soup, result>>

\* lines 87-88
Scroll ==
    /\ pc = "scroll"
    /\ pc' = "wait"
    /\ UNCHANGED <<excel, ipo_urls, idx, locals, scraped_data, driver, quits,
                   page, soup, history, result>>

\* lines 97-99: the caption is there within 30 s
Wait ==
    /\ pc = "wait"
    /\ page.marker
    /\ pc' = "page_source"
    /\ UNCHANGED <<excel, ipo_urls, idx, locals, scraped_data, driver, quits,
                   page, soup, history, result>>

\* lines 97-99: it is not, and until() raises TimeoutException (line 147)
WaitTimeout ==
    /\ pc = "wait"
    /\ ~page.marker
    /\ history' = [history EXCEPT ![idx].at = "driver",
                                  ![idx].handler = Handler("TimeoutException")]
    /\ pc' = AfterHandler
    /\ UNCHANGED <<excel, ipo_urls, idx, locals, scraped_data, driver, quits,
                   page, soup, result>>

\* line 102
PageSource ==
    /\ pc = "page_source"
    /\ soup' = page.markup
    /\ pc' = "title"
    /\ UNCHANGED <<excel, ipo_urls, idx, locals, scraped_data, driver, quits,
                   page, history, result>>

\* lines 105-114
CompanyName ==
    /\ pc = "title"
    /\ company_name' = ResolveName(page.title, url, company_name)
    /\ pc' = "extract"
    /\ UNCHANGED <<excel, ipo_urls, idx, qib_sub, nii_sub, rii_sub, total_sub,
                   scraped_data, driver, quits, page, soup, history, result>>

\* lines 117-145, and line 153 when they raise
ExtractTable ==
    /\ pc = "extract"
    /\ LET got == Extract(soup, metrics)
       IN  /\ qib_sub' = got.metrics.qib_sub
           /\ nii_sub' = got.metrics.nii_sub
           /\ rii_sub' = got.metrics.rii_sub
           /\ total_sub' = got.metrics.total_sub
           /\ IF got.raised = "none"
              THEN /\ pc' = "append"
                   /\ UNCHANGED history
              ELSE /\ pc' = AfterHandler
                   /\ history' = [history EXCEPT
                                    ![idx].at = "extract",
                                    ![idx].handler = Handler(got.raised)]
    /\ UNCHANGED <<excel, ipo_urls, idx, company_name, scraped_data, driver,
                   quits, page, soup, result>>

\* lines 157-165
AppendRecord ==
    /\ pc = "append"
    /\ scraped_data' = Append(scraped_data,
           Record(company_name, url, qib_sub, nii_sub, rii_sub, total_sub))
    /\ pc' = "for"
    /\ UNCHANGED <<excel, ipo_urls, idx, locals, driver, quits, page, soup,
                   history, result>>

\* line 167
Quit ==
    /\ pc = "quit"
    /\ driver' = "quit"
    /\ quits' = quits + 1
    /\ pc' = "return"
    /\ UNCHANGED <<excel, ipo_urls, idx, locals, scraped_data, page, soup,
                   history, result>>

\* lines 170-171
Return ==
    /\ pc = "return"
    /\ result' = DataFrame(scraped_data)
    /\ pc' = "done"
    /\ UNCHANGED <<excel, ipo_urls, idx, locals, scraped_data, driver, quits,
                   page, soup, history>>

\* the call of line 181
Init ==
    /\ pc = "read_excel"
    /\ excel \in SeqsUpTo(SampleUrls \cup {NaN}, MaxUrls)
    /\ ipo_urls = <<>>
    /\ idx = 0
    /\ company_name = NA
    /\ qib_sub = NA
    /\ nii_sub = NA
    /\ rii_sub = NA
    /\ total_sub = NA
    /\ scraped_data = <<>>
    /\ driver = "none"
    /\ quits = 0
    /\ page = BlankPage
    /\ soup = NoCaption
    /\ history = <<>>
    /\ result = NotReturned

Next ==
    \/ ReadExcel
    \/ ReadExcelFails
    \/ InitDriver
    \/ InitDriverFails
    \/ SetTimeoutFails
    \/ ForNext
    \/ ForEnd
    \/ Get
    \/ Raises
    \/ Scroll
    \/ Wait
    \/ WaitTimeout
    \/ PageSource
    \/ CompanyName
    \/ ExtractTable
    \/ AppendRecord
    \/ Quit
    \/ Return

Spec == Init /\ [][Next]_vars

----------------------------------------------------------------------------
(* Name resolution on its own: the program at line 105, for every title and *)
(* address within the bounds                                                *)

TitleChars == {" ", "~", "I", "P", "O"}
UrlChars == {"/", "-", "i", "p", "o"}

\* driver.title is document.title, which the browser returns with ASCII
\* whitespace stripped and collapsed: no space at either end, none doubled
BrowserTitle(t) ==
    /\ t # <<>> => t[1] # " " /\ t[Len(t)] # " "
    /\ \A i \in 1..(Len(t) - 1) : ~(t[i] = " " /\ t[i + 1] = " ")

EnumTitles == {t \in SeqsUpTo(TitleChars, MaxTitleLen) : BrowserTitle(t)}
EnumUrls == SeqsUpTo(UrlChars, MaxUrlLen)

\* "Tata Motors IPO Date", and "IPO Home", which has no " IPO"
TitleTata == <<"T", "a", "t", "a", " ", "M", "o", "t", "o", "r", "s", " ",
               "I", "P", "O", " ", "D", "a", "t", "e">>
TitleIpoHome == <<"I", "P", "O", " ", "H", "o", "m", "e">>
SampleTitles == {TitleAcme, TitleHome, TitleTata, TitleIpoHome}

\* "h/ipo/ACME-ipo/b-ipo": two '-ipo' segments, upper case in the first
UrlTwo == <<"h", "/", "i", "p", "o", "/", "A", "C", "M", "E", "-", "i", "p", "o",
            "/", "b", "-", "i", "p", "o">>

NameInputs ==
    (EnumTitles \X (SampleUrls \cup {UrlTwo}))
        \cup (SampleTitles \X (SampleUrls \cup {UrlTwo}))
        \cup ({TitleHome, TitleAcme} \X EnumUrls)

\* the program at the statement label of its only address u, the browser
\* showing page p and company_name being name
AtLine(label, u, p, name) ==
    /\ pc = label
    /\ excel = <<u>>
    /\ ipo_urls = <<u>>
    /\ idx = 1
    /\ company_name = name
    /\ qib_sub = NA
    /\ nii_sub = NA
    /\ rii_sub = NA
    /\ total_sub = NA
    /\ scraped_data = <<>>
    /\ driver = "open"
    /\ quits = 0
    /\ page = p
    /\ soup = p.markup
    /\ history = <<[gets |-> 1, page |-> p, at |-> "none", handler |-> "none"]>>
    /\ result = NotReturned

InitName ==
    \E in \in NameInputs :
        AtLine("title", in[2],
               [title |-> in[1], marker |-> TRUE, markup |-> NoCaption], NA)

NextName == CompanyName

SpecName == InitName /\ [][NextName]_vars

----------------------------------------------------------------------------
(* Extraction on its own: the program at line 117, for every parsed page    *)
(* within the bounds                                                        *)

\* the data-titles of a td: none of the markers, one, or two in one attribute
CellTitles == {{}, {"QIB"}, {"NII"}, {"RII"}, {"Total"}, {"QIB", "Total"}}

\* the rows before the last one
EarlierRows == {FullRow, <<>>}

EnumTables ==
    {<<>>} \cup
    { [r \in 1..(Len(earlier) + 1) |->
          IF r <= Len(earlier) THEN MkRow(r, earlier[r]) ELSE MkRow(r, last)] :
      earlier \in SeqsUpTo(EarlierRows, MaxRows - 1),
      last \in SeqsUpTo(CellTitles, MaxCells) }

EnumSoups == {NoCaption, NoTable, NoTbody} \cup {TableOf(t) : t \in EnumTables}

\* lines 105-114 have run: company_name is "Acme" or still the sentinel
InitExtract ==
    \E s \in EnumSoups, t \in {TitleAcme, TitleHome} :
        AtLine("extract", UrlPlain,
               [title |-> t, marker |-> TRUE, markup |-> s],
               ResolveName(t, UrlPlain, NA))

NextExtract == ExtractTable

SpecExtract == InitExtract /\ [][NextExtract]_vars

----------------------------------------------------------------------------
(* The properties *)

NAMetrics == [qib_sub |-> NA, nii_sub |-> NA, rii_sub |-> NA, total_sub |-> NA]

\* the address has been through lines 105-114
NameResolved == pc = "extract"

\* the title matches r'^(.*?) IPO': some " IPO" occurs in it
TitleMatches(t) == \E k \in 1..Len(t) : MatchesAt(t, TitleSuffix, k)

\* the segments, among parts, that contain '-ipo'
MarkerSegments(parts) ==
    {i \in DOMAIN parts : Contains(parts[i], IpoMarker)}

\* C4: for every page title and every address the company name stored for
\* the address is a non-empty string.
C4_NameNonEmpty == NameResolved => company_name # <<>>

\* C9: name resolution is an ordered chain.  When the title matches, the
\* name is the trimmed text before the first " IPO" whatever the address is.
\* Only when it does not match is the address used: the first segment that
\* contains "-ipo", with the marker removed, "-" replaced by " " and the
\* rest title-cased, and "N/A" when no segment contains it; a non-matching
\* title with the segment "acme-corp-ipo" gives "Acme Corp".
C9_NameChain ==
    NameResolved =>
        LET t == page.title
            parts == Split(url, "/")
            segments == MarkerSegments(parts)
            matches == TitleMatches(t)
        IN  /\ matches =>
                /\ company_name = ResolveName(t, <<>>, NA)
                /\ \E k \in 1..Len(t) :
                      /\ MatchesAt(t, TitleSuffix, k)
                      /\ \A j \in 1..(k - 1) : ~MatchesAt(t, TitleSuffix, j)
                      /\ company_name = Strip(SubSeq(t, 1, k - 1))
            /\ (~matches /\ segments # {}) =>
                LET first == CHOOSE i \in segments : \A j \in segments : i <= j
                IN  company_name =
                        Title(Replace(Replace(parts[first], IpoMarker, <<>>),
                                      <<"-">>, <<" ">>))
            /\ (~matches /\ segments = {}) => company_name = NA
            /\ (~matches /\ \E i \in DOMAIN parts :
                    /\ parts[i] = <<"a", "c", "m", "e", "-", "c", "o", "r", "p",
                                    "-", "i", "p", "o">>
                    /\ \A j \in 1..(i - 1) : j \notin segments) =>
                company_name = <<"A", "c", "m", "e", " ", "C", "o", "r", "p">>

\* C9's case: the title "Home" does not match and the address has the
\* segment "acme-corp-ipo"
C9_Witness ==
    /\ NameResolved
    /\ page.title = TitleHome
    /\ url = UrlAcme
    /\ company_name = <<"A", "c", "m", "e", " ", "C", "o", "r", "p">>


\* lines 117-145 have run for the address (and line 153 if they raised)
Extracted == pc = "append" /\ history[idx].at \in {"none", "extract"}

\* the page has no caption, or no table around it, or no tbody, or no row
MissingData(s) == ~s.caption \/ ~s.table \/ ~s.tbody \/ s.rows = <<>>

\* the tds of a row whose data-title contains the marker m
CellsFor(row, m) == {j \in DOMAIN row : m \in row[j].data_title}

\* the text of the first td for m in the row, trimmed; "N/A" without one
ValueIn(row, m) ==
    IF CellsFor(row, m) = {} THEN NA
    ELSE LET j == CHOOSE j \in CellsFor(row, m) :
                      \A k \in CellsFor(row, m) : j <= k
         IN  Strip(row[j].text)

\* C5: extraction never raises for missing data: with the caption absent,
\* or no enclosing table, or no tbody, or no rows, it completes without an
\* exception, all four metrics are "N/A" and the name resolved is kept.
C5_ExtractionNeverRaises ==
    (Extracted /\ MissingData(soup)) =>
        /\ history[idx].handler = "none"
        /\ metrics = NAMetrics
        /\ company_name = ResolveName(page.title, url, NA)

\* C6: with N >= 1 body rows every metric is taken from row N only: it is
\* the value of row N's cell, "N/A" when row N has no such cell whatever
\* the rows before it hold, and the same as for the table of row N alone.
C6_LastRowOnly ==
    (Extracted /\ ~MissingData(soup)) =>
        LET last_row == soup.rows[Len(soup.rows)]
        IN  /\ qib_sub = ValueIn(last_row, "QIB")
            /\ nii_sub = ValueIn(last_row, "NII")
            /\ rii_sub = ValueIn(last_row, "RII")
            /\ total_sub = ValueIn(last_row, "Total")
            /\ metrics = Extract(TableOf(<<last_row>>), NAMetrics).metrics

\* C6's case: two rows, the first with a NII cell and the last without one
C6_Witness ==
    /\ Extracted
    /\ ~MissingData(soup)
    /\ Len(soup.rows) = 2
    /\ CellsFor(soup.rows[1], "NII") # {}
    /\ CellsFor(soup.rows[2], "NII") = {}
    /\ CellsFor(soup.rows[2], "RII") # {}
    /\ nii_sub = NA
    /\ rii_sub = <<"2", ".", "1", "x">>

\* the metric read for the marker m
Metric(m) ==
    CASE m = "QIB" -> qib_sub
      [] m = "NII" -> nii_sub
      [] m = "RII" -> rii_sub
      [] m = "Total" -> total_sub

\* leading and trailing whitespace removed, nothing else changed
IsTrimOf(v, text) ==
    /\ v = <<>> \/ (v[1] \notin Whitespace /\ v[Len(v)] \notin Whitespace)
    /\ \E a, b \in 0..Len(text) :
          /\ a + Len(v) + b = Len(text)
          /\ \A i \in 1..a : text[i] \in Whitespace
          /\ \A i \in 1..Len(v) : text[a + i] = v[i]
          /\ \A i \in 1..b : text[a + Len(v) + i] \in Whitespace

\* C7: the four metrics are resolved independently: a field whose cell is
\* in the last row gets that cell's trimmed text, a field whose cell is not
\* gets "N/A", whichever of the other three cells are there; a last row
\* with only a QIB cell gives the QIB value and "N/A" three times.
C7_FieldsIndependent ==
    (Extracted /\ ~MissingData(soup)) =>
        LET last_row == soup.rows[Len(soup.rows)]
            only(m) == SelectSeq(last_row, LAMBDA td : m \in td.data_title)
        IN  /\ \A m \in Markers :
                  /\ CellsFor(last_row, m) = {} => Metric(m) = NA
                  /\ CellsFor(last_row, m) # {} =>
                        /\ \E j \in CellsFor(last_row, m) :
                              IsTrimOf(Metric(m), last_row[j].text)
                        /\ Metric(m) = Strip(only(m)[1].text)
            /\ (Len(last_row) = 1 /\ last_row[1].data_title = {"QIB"}) =>
                  /\ qib_sub = Strip(last_row[1].text)
                  /\ nii_sub = NA /\ rii_sub = NA /\ total_sub = NA

\* C7's case: the only row has a QIB cell and nothing else
C7_Witness ==
    /\ Extracted
    /\ soup.rows = <<MkRow(1, <<{"QIB"}>>)>>
    /\ metrics = [qib_sub |-> <<"1", ".", "1", "x">>, nii_sub |-> NA,
                  rii_sub |-> NA, total_sub |-> NA]


\* the batch loop has finished: line 167 or later of a run that reached it
LoopDone == pc \in {"quit", "return"} \/ result.status = "DataFrame"

\* the address at position idx is being processed (lines 75-156)
Processing ==
    pc \in {"get", "scroll", "wait", "page_source", "title", "extract", "append"}

\* processing of address i failed: an except clause of lines 147-154 ran
Failed(i) == history[i].handler # "none"

\* C1: when the batch loop finishes there is exactly one record per input
\* address, record i carries address i, in input order, whatever the
\* addresses (duplicates included) and whatever happened at each of them;
\* while it runs, the records are those of the addresses already done.
C1_OneRecordPerAddress ==
    /\ \A i \in 1..Len(scraped_data) :
          i <= Len(ipo_urls) /\ scraped_data[i].ipo_link = ipo_urls[i]
    /\ (Processing /\ pc # "append") => Len(scraped_data) = idx - 1
    /\ pc = "for" => Len(scraped_data) = idx
    /\ LoopDone => Len(scraped_data) = Len(ipo_urls)
    /\ pc = "done" => result \in {None, DataFrame(scraped_data)}

\* C1's case: the same address twice, the first time failing, the second not
C1_Witness ==
    /\ pc = "done"
    /\ result.status = "DataFrame"
    /\ ipo_urls = <<UrlAcme, UrlAcme>>
    /\ Failed(1)
    /\ ~Failed(2)
    /\ Len(result.rows) = 2

\* C2: whenever processing of an address fails with an exception raised
\* anywhere inside the per-address try block, the record appended for it
\* has the company name and all four metrics equal to "N/A".
C2_FailureGivesSentinels ==
    \A i \in 1..Len(scraped_data) :
        Failed(i) =>
            scraped_data[i] = Record(NA, ipo_urls[i], NA, NA, NA, NA)

\* C3: in every run in which a browser session has been created it is
\* released exactly once, at the end of the run, whether the run ends in
\* success or in failure: never before the last address is recorded, and
\* never left unreleased when the function returns.
C3_SessionReleasedOnce ==
    /\ quits <= 1
    /\ driver = "quit" => (quits = 1 /\ Len(scraped_data) = Len(ipo_urls))
    /\ (pc = "done" /\ driver # "none") => (driver = "quit" /\ quits = 1)

\* what a run over the single address u records for it when the browser
\* behaves as in the history entry h: nothing but u and h enters
RecordAlone(u, h) ==
    LET reached ==  h.at \in {"none", "extract"}
        name == IF reached THEN ResolveName(h.page.title, u, NA) ELSE NA
        got == IF reached THEN Extract(h.page.markup, NAMetrics).metrics
               ELSE NAMetrics
    IN  Record(name, u, got.qib_sub, got.nii_sub, got.rii_sub, got.total_sub)

\* C8: a failure at one address does not stop the loop and does not change
\* the record of any other address: each record is what its own address and
\* its own page give in a run of their own, so nothing read for one address
\* shows in the record of another.
C8_FailureIsolation ==
    /\ \A i \in 1..Len(scraped_data) :
          scraped_data[i] = RecordAlone(ipo_urls[i], history[i])
    /\ \A i \in 1..Len(history) :
          (Failed(i) /\ (i < idx \/ LoopDone)) => Len(scraped_data) >= i
    /\ LoopDone => Len(scraped_data) = Len(history)

\* C8's case: address 1 yields values, address 2 fails before any page is
\* read, and address 2's record holds none of address 1's values
C8_Witness ==
    /\ pc = "done"
    /\ result.status = "DataFrame"
    /\ Len(scraped_data) = 2
    /\ ~Failed(1)
    /\ scraped_data[1].qib_sub # NA
    /\ scraped_data[1].company_name # NA
    /\ Failed(2)
    /\ history[2].at = "driver"
    /\ history[2].page = BlankPage
    /\ scraped_data[2] = Record(NA, ipo_urls[2], NA, NA, NA, NA)

\* every step of the function ends: the page load is capped at 60 s (line
\* 67), the wait at 30 s (line 97), the sleeps are finite
SpecLive == Spec /\ WF_vars(Next)

\* C10: each address is processed, then recorded, once and in that order:
\* driver.get runs exactly once per position (no retry), a failure leads
\* straight to the record, address i+1 starts only after address i is
\* recorded, and a run that entered the loop ends with every address
\* recorded and the records returned.
C10_ProcessingThenRecorded ==
    /\ [](/\ Len(history) = idx
          /\ \A i \in 1..Len(history) :
                /\ history[i].gets <= 1
                /\ (i < idx \/ pc \notin {"get"}) => history[i].gets = 1
                /\ i <= Len(scraped_data) => history[i].gets = 1
          /\ Len(scraped_data) \in {idx - 1, idx}
          /\ Processing => Len(scraped_data) = idx - 1)
    /\ [][(Processing /\ ~Failed(idx) /\ Failed(idx)') => pc' = "append"]_vars
    /\ [][pc = "append" =>
            /\ pc' = "for"
            /\ Len(scraped_data') = Len(scraped_data) + 1]_vars
    /\ ((pc = "for" /\ driver = "open") ~>
            (/\ pc = "done"
             /\ result = DataFrame(scraped_data)
             /\ Len(scraped_data) = Len(ipo_urls)))

\* C10's case: two addresses, the first failed, both recorded and returned
C10_Witness ==
    /\ pc = "done"
    /\ result.status = "DataFrame"
    /\ Len(result.rows) = 2
    /\ Failed(1)
    /\ history[1].gets = 1
    /\ history[2].gets = 1

=============================================================================
